---- MODULE Spec2Model ----
(***************************************************************************)
(* Model of src/ingest.py: the daily-bar ingestion job.                    *)
(*   main                  : bootstrap, registration, per-symbol loop      *)
(*   fetch_daily_adjusted  : request / classify / backoff / parse / sort   *)
(*   UPSERT, execute_batch : conflict-resolving write keyed by (symbol,ts) *)
(*   ensure_supabase_pooler_options : DATABASE_URL normalization           *)
(* The job is single-threaded; every action below is one blocking step of  *)
(* the program (one loop iteration of the fetcher, one step of the driver).*)
(*   Spec, FairSpec : one run of main over the configured symbols          *)
(*   FetchSpec      : the loop body for one symbol, requests and sleeps    *)
(*                    recorded                                             *)
(*   StoreSpec      : one symbol ingested again and again by later runs    *)
(*   NormSpec       : ensure_supabase_pooler_options on a DATABASE_URL,    *)
(*                    then on its own output                               *)
(***************************************************************************)
EXTENDS Integers, Sequences, FiniteSets, TLC

(* ----------------------------- bounds ---------------------------------- *)
NumSymbols == 2     \* how many of the default symbols are configured
MaxRuns    == 2     \* how many runs of the job ingest a symbol
MaxBars    == 2     \* largest number of date keys in one upstream payload
MaxParams  == 2     \* largest number of fields in a DATABASE_URL query string

(* ------------------------ program constants ---------------------------- *)
DefaultSymbols == <<"AAPL", "MSFT", "GOOGL", "7203.T", "6758.T">>
SYMBOLS        == SubSeq(DefaultSymbols, 1, NumSymbols)

MaxAttempts     == 3      \* for attempt in range(3)
RateLimitBase   == 15     \* wait = 15 + attempt*10
RateLimitStep   == 10
TransientBase   == 5      \* time.sleep(5*(2**attempt))
InterSymbolWait == 13     \* time.sleep(13)
SOURCE          == "alphavantage"
NoTimeSeries    == "No 'Time Series (Daily)' in response"

(* --------------------------- upstream data ----------------------------- *)
\* Date keys of the "Time Series (Daily)" mapping.  isoparse accepts the
\* extended and the basic ISO calendar format, so two keys can name one day.
DateKeys == {"2024-01-02", "20240102", "2024-01-03"}

\* One upstream bar: a mapping from the fixed field names to strings.
\* "5. adjusted close" may be missing.
BarFull ==
  [f \in {"1. open", "2. high", "3. low", "4. close", "5. adjusted close", "6. volume"} |->
     CASE f = "1. open"            -> "1.0"
       [] f = "2. high"            -> "2.5"
       [] f = "3. low"             -> "1"
       [] f = "4. close"           -> "2"
       [] f = "5. adjusted close"  -> "2.5"
       [] f = "6. volume"          -> "10"]

BarNoAdj ==
  [f \in {"1. open", "2. high", "3. low", "4. close", "6. volume"} |->
     CASE f = "1. open"   -> "2"
       [] f = "2. high"   -> "2"
       [] f = "3. low"    -> "1.0"
       [] f = "4. close"  -> "1.0"
       [] f = "6. volume" -> "7"]

RawBars == {BarFull, BarNoAdj}

\* float(s), in tenths: "1" and "1.0" are the same number.
Float(s) ==
  CASE s = "1"   -> 10
    [] s = "1.0" -> 10
    [] s = "2"   -> 20
    [] s = "2.5" -> 25

\* int(s)
Int10(s) ==
  CASE s = "10" -> 10
    [] s = "7"  -> 7

\* dtparse.isoparse(ds).replace(tzinfo=timezone.utc): midnight UTC of the day,
\* written yyyymmdd.
IsoParse(ds) ==
  CASE ds = "2024-01-02" -> 20240102
    [] ds = "20240102"   -> 20240102
    [] ds = "2024-01-03" -> 20240103

\* Sequences of <<date key, bar>> with pairwise distinct date keys, in the
\* order the JSON object lists them (ts.items()).
KeysOf(p) == {p[k][1] : k \in 1..Len(p)}

RECURSIVE PayloadsOfLen(_)
PayloadsOfLen(n) ==
  IF n = 0 THEN {<<>>}
  ELSE UNION {{Append(p, <<d, b>>) : d \in DateKeys \ KeysOf(p), b \in RawBars} :
                p \in PayloadsOfLen(n - 1)}

Payloads == UNION {PayloadsOfLen(n) : n \in 0..MaxBars}

\* What one requests.get + raise_for_status + r.json() can produce:
\*   fail # "none" : the request raised (network error, timeout, HTTP status)
\*   otherwise the decoded JSON object: the "Error Message" text or "none",
\*   whether "Note" is present, whether "Time Series (Daily)" is present, and
\*   its value (possibly the empty mapping).
TransientErrors == {"timeout", "http 503"}
ErrorMessages   == {"Invalid API call"}

Responses ==
  [fail : TransientErrors, error : {"none"}, note : {FALSE},
   hasSeries : {FALSE}, series : {<<>>}]
  \cup
  [fail : {"none"}, error : ErrorMessages \cup {"none"}, note : BOOLEAN,
   hasSeries : {FALSE}, series : {<<>>}]
  \cup
  [fail : {"none"}, error : ErrorMessages \cup {"none"}, note : BOOLEAN,
   hasSeries : {TRUE}, series : Payloads]

(* ------------------------------ parsing -------------------------------- *)
\* Faulty variant: the adjusted close is always taken from the close
ParseRowCloseOnly(symbol, ds, v) ==
  [symbol    |-> symbol,
   ts        |-> IsoParse(ds),
   open      |-> Float(v["1. open"]),
   high      |-> Float(v["2. high"]),
   low       |-> Float(v["3. low"]),
   close     |-> Float(v["4. close"]),
   adj_close |-> Float(v["4. close"]),
   volume    |-> Int10(v["6. volume"]),
   source    |-> SOURCE]

\* lines 106-116: one row of the result
ParseRow(symbol, ds, v) ==
  [symbol    |-> symbol,
   ts        |-> IsoParse(ds),
   open      |-> Float(v["1. open"]),
   high      |-> Float(v["2. high"]),
   low       |-> Float(v["3. low"]),
   close     |-> Float(v["4. close"]),
   adj_close |-> IF "5. adjusted close" \in DOMAIN v
                 THEN Float(v["5. adjusted close"])
                 ELSE Float(v["4. close"]),
   volume    |-> Int10(v["6. volume"]),
   source    |-> SOURCE]

\* lines 104-116: rows in the order of ts.items()
ParseRows(symbol, series) ==
  [k \in 1..Len(series) |-> ParseRow(symbol, series[k][1], series[k][2])]

\* rows.sort(key=lambda r: r["ts"]): a stable sort
RECURSIVE InsertByTs(_, _)
InsertByTs(r, s) ==
  IF s = <<>> THEN <<r>>
  ELSE IF s[Len(s)].ts <= r.ts THEN Append(s, r)
  ELSE Append(InsertByTs(r, SubSeq(s, 1, Len(s) - 1)), s[Len(s)])

\* Faulty variant: the rows are returned in the order of the mapping
SortByTsNone(s) == s

RECURSIVE SortByTs(_)
SortByTs(s) ==
  IF s = <<>> THEN <<>>
  ELSE InsertByTs(s[Len(s)], SortByTs(SubSeq(s, 1, Len(s) - 1)))

(* ------------------------------- store --------------------------------- *)
Key(r) == <<r.symbol, r.ts>>

StoredRow(row, now) ==
  [symbol |-> row.symbol, ts |-> row.ts, open |-> row.open, high |-> row.high,
   low |-> row.low, close |-> row.close, adj_close |-> row.adj_close,
   volume |-> row.volume, source |-> row.source, ingested_at |-> now]

\* The value columns of a stored row (everything but ingested_at).
Data(r) ==
  [symbol |-> r.symbol, ts |-> r.ts, open |-> r.open, high |-> r.high,
   low |-> r.low, close |-> r.close, adj_close |-> r.adj_close,
   volume |-> r.volume, source |-> r.source]

\* Faulty variant: a plain INSERT without the conflict clause's key
UpsertInsertOnly(st, row, now) == st \cup {StoredRow(row, now)}

\* Faulty variant: ON CONFLICT DO NOTHING: the first write wins
UpsertDoNothing(st, row, now) ==
  IF \E r \in st : Key(r) = Key(row) THEN st
  ELSE st \cup {StoredRow(row, now)}

\* UPSERT: INSERT ... ON CONFLICT (symbol, ts) DO UPDATE SET <value columns>
\* = EXCLUDED.<column>, ingested_at = now()
Upsert(st, row, now) ==
  IF \E r \in st : Key(r) = Key(row)
  THEN {IF Key(r) = Key(row)
        THEN [r EXCEPT !.open = row.open, !.high = row.high, !.low = row.low,
                       !.close = row.close, !.adj_close = row.adj_close,
                       !.volume = row.volume, !.source = row.source,
                       !.ingested_at = now]
        ELSE r : r \in st}
  ELSE st \cup {StoredRow(row, now)}

\* Faulty variant: the last statement of the page is not sent
RECURSIVE ExecuteBatchShort(_, _, _)
ExecuteBatchShort(st, rs, now) ==
  IF Len(rs) <= 1 THEN st
  ELSE ExecuteBatchShort(st \cup {StoredRow(rs[1], now)}, SubSeq(rs, 2, Len(rs)), now)

\* execute_batch(cur, UPSERT, rows, page_size=500): the statements of one
\* page, in order.  A compact payload is far below the page size.
RECURSIVE ExecuteBatch(_, _, _)
ExecuteBatch(st, rs, now) ==
  IF rs = <<>> THEN st
  ELSE ExecuteBatch(Upsert(st, rs[1], now), SubSeq(rs, 2, Len(rs)), now)

\* ensure_symbols: INSERT INTO symbols(symbol) VALUES (s) ON CONFLICT(symbol)
\* DO NOTHING, for each configured symbol.  The other columns take defaults.
NewSymbolRow(s) == [symbol |-> s, name |-> "NULL", is_active |-> TRUE]

\* Faulty variant: ON CONFLICT DO UPDATE, the row is reset to the defaults
RECURSIVE InsertSymbolsOverwrite(_, _)
InsertSymbolsOverwrite(reg, syms) ==
  IF syms = <<>> THEN reg
  ELSE InsertSymbolsOverwrite(
         {r \in reg : r.symbol # syms[1]} \cup {NewSymbolRow(syms[1])},
         SubSeq(syms, 2, Len(syms)))

RECURSIVE InsertSymbols(_, _)
InsertSymbols(reg, syms) ==
  IF syms = <<>> THEN reg
  ELSE InsertSymbols(
         IF \E r \in reg : r.symbol = syms[1] THEN reg
         ELSE reg \cup {NewSymbolRow(syms[1])},
         SubSeq(syms, 2, Len(syms)))

\* A registry row some other writer maintains (descriptive fields filled in).
PreRegistry == {[symbol |-> "AAPL", name |-> "Apple Inc.", is_active |-> FALSE]}

(* ------------------------------ backoff -------------------------------- *)
\* Faulty variant: the increment per attempt is lost
RateLimitWaitFlat(a) == RateLimitBase

\* line 99: wait = 15 + attempt*10
RateLimitWait(a) == RateLimitBase + a * RateLimitStep

\* Faulty variant: the delay does not grow
TransientWaitFlat(a) == TransientBase

\* line 121: 5*(2**attempt)
TransientWait(a) == TransientBase * (2 ^ a)

\* Lines 94-103: which branch one response takes.
Classify(resp) ==
  IF resp.fail # "none" THEN "transient"
  ELSE IF resp.error # "none" THEN "hard"
  ELSE IF resp.note THEN "note"
  ELSE IF ~resp.hasSeries \/ resp.series = <<>> THEN "empty"
  ELSE "ok"

\* The exception raised inside the try block, by branch.
Raised(resp) ==
  CASE Classify(resp) = "transient" -> resp.fail
    [] Classify(resp) = "hard"      -> resp.error
    [] Classify(resp) = "empty"     -> NoTimeSeries
    [] OTHER                        -> "none"

(* -------------------------- connection string -------------------------- *)
\* A string is a sequence of atoms: pieces of text the program never looks
\* inside.  Every substring the code tests for ("pooler.supabase.com",
\* "project=") starts and ends on atom borders, so Python's `in`, strip()
\* and + are the same operations on sequences of atoms.

DEFAULT_PROJECT_REF == "dynrvdexbngvrawdtjsc"

\* SUPABASE_PROJECT_REF is not set: the default is the tenant.
PROJECT_REF == DEFAULT_PROJECT_REF

PoolerDomain == <<"pooler.supabase.com">>

ProjectEq == <<"project", "=">>

\* pat in s
Contains(s, pat) ==
  \E k \in 0..(Len(s) - Len(pat)) : SubSeq(s, k + 1, k + Len(pat)) = pat

RECURSIVE LStrip(_)
LStrip(s) ==
  IF s # <<>> /\ Head(s) = " " THEN LStrip(Tail(s)) ELSE s

RECURSIVE RStrip(_)
RStrip(s) ==
  IF s # <<>> /\ s[Len(s)] = " " THEN RStrip(SubSeq(s, 1, Len(s) - 1)) ELSE s

\* str.strip()
Strip(s) == RStrip(LStrip(s))

\* urllib.parse.unquote after replace('+', ' '), one atom
UnquoteAtom(a) ==
  CASE a = "+"   -> " "
    [] a = "%20" -> " "
    [] a = "%3D" -> "="
    [] OTHER     -> a

Unquote(s) == [k \in 1..Len(s) |-> UnquoteAtom(s[k])]

\* urllib.parse.quote_plus, one atom
QuoteAtom(a) ==
  CASE a = " " -> "+"
    [] a = "=" -> "%3D"
    [] OTHER   -> a

QuotePlus(s) == [k \in 1..Len(s) |-> QuoteAtom(s[k])]

\* One field of a query string as written: name, whether a "=" follows the
\* name, and the text after the first "=".
Param(n, e, v) == [name |-> n, eq |-> e, value |-> v]

SslParams ==
  { Param("sslmode", TRUE, <<"require">>),
    Param("sslmode", TRUE, <<"disable">>),
    Param("sslmode", FALSE, <<>>) }

OptionsParams ==
  { Param("options", FALSE, <<>>),
    Param("options", TRUE, <<"-c", "+", "x", "%3D", "1">>),
    Param("options", TRUE, <<"-c", "%20", "x", "=", "1">>),
    Param("options", TRUE, <<"+", "-c", "+", "x", "%3D", "1", "+">>),
    Param("options", TRUE, <<"+">>),
    Param("options", TRUE, <<"project", "%3D", PROJECT_REF>>),
    Param("options", TRUE, <<"project", "%3D", "othertenant">>),
    Param("options", TRUE, <<"-c", "+", "app.", "project", "%3D", "1">>) }

OtherParams == { Param("application_name", TRUE, <<"ingest">>) }

Params == SslParams \cup OptionsParams \cup OtherParams

Queries == UNION { [1..n -> Params] : n \in 0..MaxParams }

\* What follows "scheme:" up to "?" or "#".
Hiers ==
  { <<"/", "/", "u@aws-0.", "pooler.supabase.com", ":6543", "/", "postgres">>,
    <<"/", "/", "u@db.example.com", ":5432", "/", "postgres">>,
    <<"/", "/", "u@aws-0.", "pooler.supabase.com", ":6543">>,
    <<"/", "/", "/", "/", "aws-0.", "pooler.supabase.com", "/", "postgres">>,
    <<"/", "postgres">> }

Fragments == { <<>>, <<"frag">> }

Url(h, q, f) ==
  [scheme |-> "postgresql", hier |-> h, query |-> q, fragment |-> f]

Urls == { Url(h, q, f) : h \in Hiers, q \in Queries, f \in Fragments }

\* urlunsplit differs between interpreter builds for an empty authority
\* followed by a path that begins with "//": older builds write the path
\* alone, newer builds write "//" before it.
UrllibBuilds == { "drops-empty-authority", "keeps-empty-authority" }

StartsWithSlashes(h) == Len(h) >= 2 /\ h[1] = "/" /\ h[2] = "/"

\* Index of the first "/" after the "//" of the authority, or Len(h) + 1.
NetlocEnd(h) ==
  IF \E k \in 3..Len(h) : h[k] = "/"
  THEN CHOOSE k \in 3..Len(h) :
         h[k] = "/" /\ \A j \in 3..(k - 1) : h[j] # "/"
  ELSE Len(h) + 1

\* urllib.parse.urlsplit
Urlsplit(u) ==
  IF StartsWithSlashes(u.hier)
  THEN [scheme   |-> u.scheme,
        netloc   |-> SubSeq(u.hier, 3, NetlocEnd(u.hier) - 1),
        path     |-> SubSeq(u.hier, NetlocEnd(u.hier), Len(u.hier)),
        query    |-> u.query,
        fragment |-> u.fragment]
  ELSE [scheme   |-> u.scheme,
        netloc   |-> <<>>,
        path     |-> u.hier,
        query    |-> u.query,
        fragment |-> u.fragment]

\* urllib.parse.urlunsplit; "postgresql" is not in urllib's uses_netloc
Urlunsplit(p, build) ==
  [scheme   |-> p.scheme,
   hier     |-> IF p.netloc # <<>>
                THEN <<"/", "/">> \o p.netloc \o
                     (IF p.path # <<>> /\ Head(p.path) # "/"
                      THEN <<"/">> \o p.path ELSE p.path)
                ELSE IF build = "keeps-empty-authority"
                        /\ StartsWithSlashes(p.path)
                THEN <<"/", "/">> \o p.path
                ELSE p.path,
   query    |-> p.query,
   fragment |-> p.fragment]

\* urllib.parse.parse_qsl(query, keep_blank_values=True): pairs in order
ParseQsl(query) ==
  [k \in 1..Len(query) |->
     <<UnquoteAtom(query[k].name), Unquote(query[k].value)>>]

\* A dict is the sequence of its items in insertion order.
DictHas(d, k) == \E j \in 1..Len(d) : d[j][1] = k

DictVal(d, k) == d[CHOOSE j \in 1..Len(d) : d[j][1] = k][2]

\* d[k] = v
DictSet(d, k, v) ==
  IF DictHas(d, k)
  THEN [j \in 1..Len(d) |-> IF d[j][1] = k THEN <<k, v>> ELSE d[j]]
  ELSE Append(d, <<k, v>>)

\* dict(pairs): a later pair replaces the value of an earlier one
RECURSIVE Dict(_)
Dict(pairs) ==
  IF pairs = <<>> THEN <<>>
  ELSE DictSet(Dict(SubSeq(pairs, 1, Len(pairs) - 1)),
               pairs[Len(pairs)][1], pairs[Len(pairs)][2])

\* urllib.parse.urlencode(q, doseq=True) for str values
Urlencode(d) ==
  [k \in 1..Len(d) |->
     Param(QuoteAtom(d[k][1]), TRUE, QuotePlus(d[k][2]))]

\* q.get("options") or ""
OptionsOrEmpty(d) == IF DictHas(d, "options") THEN DictVal(d, "options") ELSE <<>>

ensure_supabase_pooler_options(dsn, build) ==
  LET parts == Urlsplit(dsn)
      q0 == Dict(ParseQsl(parts.query))
      q1 == IF ~(DictHas(q0, "sslmode")
                 /\ DictVal(q0, "sslmode") = <<"require">>)
            THEN DictSet(q0, "sslmode", <<"require">>)
            ELSE q0
      need_project == Contains(parts.netloc, PoolerDomain)
      has_project  == DictHas(q1, "options")
                      /\ Contains(OptionsOrEmpty(q1), ProjectEq)
      q2 == IF need_project /\ ~has_project
            THEN IF OptionsOrEmpty(q1) # <<>>
                 THEN IF ~Contains(OptionsOrEmpty(q1), ProjectEq)
                      THEN DictSet(q1, "options",
                             Strip(DictVal(q1, "options"))
                               \o <<" ">> \o ProjectEq \o <<PROJECT_REF>>)
                      ELSE q1
                 ELSE DictSet(q1, "options", ProjectEq \o <<PROJECT_REF>>)
            ELSE q1
  IN Urlunsplit([scheme   |-> parts.scheme,
                 netloc   |-> parts.netloc,
                 path     |-> parts.path,
                 query    |-> Urlencode(q2),
                 fragment |-> parts.fragment], build)

\* The DATABASE_URL of a deployment on the pooler.
DeployedDsn ==
  Url(<<"/", "/", "u@aws-0.", "pooler.supabase.com", ":6543", "/", "postgres">>,
      <<>>, <<>>)


(* ------------------------------- state --------------------------------- *)
VARIABLES
  clock,      \* what now() reads: the number of the run
  schema,     \* TRUE once the schema and tables exist
  registry,   \* rows of tickervista.symbols
  store,      \* rows of tickervista.ohlcv_1d
  pc,         \* position of main
  i,          \* index of the current symbol (enumerate(SYMBOLS, 1))
  total,      \* main's running total
  rows,       \* value returned by the last call of fetch_daily_adjusted
  err,        \* the exception being handled / reported, or "none"
  attempt,    \* loop variable of fetch_daily_adjusted
  trace,      \* observation: the attempts of one fetch call (FetchSpec)
  calls,      \* observation: symbols the fetcher was invoked for, this run
  before,     \* observation: store and total when the current symbol began
  lastOutcome,\* observation: what the driver printed for the last symbol
  failedIn,   \* observation: "fetch" or "write" when the symbol was skipped
  delayedFor, \* observation: index of the symbol the last sleep(13) followed
  setup,      \* observation: the setup steps that completed, in order
  ledger,     \* observation: per symbol, rows fetched and whether written
  lastw,      \* observation: value columns last written for each key
  envDsn,     \* DATABASE_URL as the environment gives it
  urllib,     \* which urlunsplit the interpreter ships
  outs        \* DB_URL after each application of the normalizer

vars == <<clock, schema, registry, store, pc, i, total, rows, err, attempt,
          trace, calls, before, lastOutcome, failedIn, delayedFor, setup,
          ledger, lastw, envDsn, urllib, outs>>

dbVars  == <<schema, registry, store, lastw>>
obsVars == <<trace, calls, before, lastOutcome, failedIn, delayedFor>>
urlVars == <<envDsn, urllib, outs>>

NoSnap == [store |-> {}, total |-> 0, taken |-> FALSE]

\* A database an earlier deployment bootstrapped: AAPL is registered and
\* described, no bar has been stored yet.
Init ==
  /\ clock = 1
  /\ schema = TRUE
  /\ registry = PreRegistry
  /\ store = {}
  /\ pc = "connect"
  /\ i = 0
  /\ total = 0
  /\ rows = <<>>
  /\ err = "none"
  /\ attempt = 0
  /\ trace = <<>>
  /\ calls = <<>>
  /\ before = NoSnap
  /\ lastOutcome = "none"
  /\ failedIn = "none"
  /\ delayedFor = 0
  /\ setup = <<>>
  /\ ledger = <<>>
  /\ lastw = {}
  /\ envDsn = DeployedDsn
  /\ urllib = "drops-empty-authority"
  /\ outs = <<ensure_supabase_pooler_options(envDsn, urllib)>>

(* ------------------------------- main ---------------------------------- *)
\* line 136: psycopg2.connect(DB_URL); a failure leaves main.
Connect ==
  /\ pc = "connect"
  /\ UNCHANGED urlVars
  /\ UNCHANGED <<setup, ledger>>
  /\ \E ok \in BOOLEAN :
       IF ok THEN pc' = "ddl" /\ err' = "none"
       ELSE pc' = "aborted" /\ err' = "connect failed"
  /\ UNCHANGED <<clock, i, total, rows, attempt>>
  /\ UNCHANGED dbVars
  /\ UNCHANGED obsVars

\* line 138, run_ddl: CREATE ... IF NOT EXISTS; an exception leaves main.
RunDdl ==
  /\ pc = "ddl"
  /\ UNCHANGED urlVars
  /\ UNCHANGED ledger
  /\ \E ok \in BOOLEAN :
       IF ok THEN /\ schema' = TRUE /\ pc' = "register" /\ err' = "none"
                  /\ setup' = Append(setup, "ddl")
       ELSE /\ schema' = schema /\ pc' = "aborted" /\ err' = "ddl failed"
            /\ setup' = setup
  /\ UNCHANGED <<clock, registry, store, lastw, i, total, rows, attempt>>
  /\ UNCHANGED obsVars

\* Faulty variant: a failed registration is swallowed and the loop starts
EnsureSymbolsLenient ==
  /\ pc = "register"
  /\ UNCHANGED urlVars
  /\ UNCHANGED ledger
  /\ \E ok \in BOOLEAN :
       IF ok
       THEN /\ registry' = InsertSymbols(registry, SYMBOLS)
            /\ setup' = Append(setup, "register")
       ELSE /\ registry' = registry
            /\ setup' = setup
  /\ pc' = "loop" /\ i' = 1 /\ total' = 0 /\ err' = "none"
  /\ UNCHANGED <<clock, schema, store, lastw, rows, attempt>>
  /\ UNCHANGED obsVars

\* lines 139-140, ensure_symbols then total = 0; an exception leaves main.
EnsureSymbols ==
  /\ pc = "register"
  /\ UNCHANGED urlVars
  /\ UNCHANGED ledger
  /\ \E ok \in BOOLEAN :
       IF ok
       THEN /\ registry' = InsertSymbols(registry, SYMBOLS)
            /\ pc' = "loop" /\ i' = 1 /\ total' = 0 /\ err' = "none"
            /\ setup' = Append(setup, "register")
       ELSE /\ registry' = registry
            /\ pc' = "aborted" /\ i' = i /\ total' = total
            /\ err' = "registration failed"
            /\ setup' = setup
  /\ UNCHANGED <<clock, schema, store, lastw, rows, attempt>>
  /\ UNCHANGED obsVars

\* lines 141-144: the loop takes the next symbol and calls the fetcher.
BeginSymbol ==
  /\ pc = "loop"
  /\ UNCHANGED urlVars
  /\ UNCHANGED <<setup, ledger>>
  /\ i <= Len(SYMBOLS)
  /\ pc' = "fetch"
  /\ attempt' = 0
  /\ rows' = <<>>
  /\ err' = "none"
  /\ trace' = <<>>
  /\ calls' = Append(calls, SYMBOLS[i])
  /\ before' = [store |-> store, total |-> total, taken |-> TRUE]
  /\ lastOutcome' = "none"
  /\ failedIn' = "none"
  /\ UNCHANGED <<clock, i, total, delayedFor>>
  /\ UNCHANGED dbVars

\* Lines 91-122, one iteration of the retry loop: the request, the branch the
\* response takes, and the sleep, return or raise that ends the iteration.
\* Waited(resp, a) is the time the iteration sleeps.
Waited(resp, a) ==
  CASE Classify(resp) = "note" -> RateLimitWait(a)
    [] Classify(resp) = "ok"   -> 0
    [] OTHER -> IF a = MaxAttempts - 1 THEN 0 ELSE TransientWait(a)

\* Faulty variant: a rate-limit notice does not use up an attempt
AttemptNoticeFree(resp) ==
  /\ pc = "fetch"
  /\ UNCHANGED urlVars
  /\ UNCHANGED <<setup, ledger>>
  /\ LET kind == Classify(resp)
         last == (attempt = MaxAttempts - 1)
     IN
     CASE kind = "ok" ->
            /\ rows' = SortByTs(ParseRows(SYMBOLS[i], resp.series))
            /\ pc' = "returned"
            /\ UNCHANGED <<attempt, err>>
       [] kind = "note" ->
            UNCHANGED <<pc, rows, err, attempt>>
       [] OTHER ->
            IF last
            THEN pc' = "raised" /\ err' = Raised(resp) /\ UNCHANGED <<attempt, rows>>
            ELSE attempt' = attempt + 1 /\ UNCHANGED <<pc, rows, err>>
  /\ UNCHANGED <<clock, i, total, calls, before, lastOutcome, failedIn, delayedFor>>
  /\ UNCHANGED dbVars

Attempt(resp) ==
  /\ pc = "fetch"
  /\ UNCHANGED urlVars
  /\ UNCHANGED <<setup, ledger>>
  /\ LET kind == Classify(resp)
         last == (attempt = MaxAttempts - 1)
     IN
     CASE kind = "ok" ->
            /\ rows' = SortByTs(ParseRows(SYMBOLS[i], resp.series))
            /\ pc' = "returned"
            /\ UNCHANGED <<attempt, err>>
       [] kind = "note" ->
            \* sleep, continue; after the last iteration: return []
            IF last
            THEN pc' = "returned" /\ rows' = <<>> /\ UNCHANGED <<attempt, err>>
            ELSE attempt' = attempt + 1 /\ UNCHANGED <<pc, rows, err>>
       [] OTHER ->
            \* except Exception: re-raise on the last attempt, else sleep
            IF last
            THEN pc' = "raised" /\ err' = Raised(resp) /\ UNCHANGED <<attempt, rows>>
            ELSE attempt' = attempt + 1 /\ UNCHANGED <<pc, rows, err>>
  /\ UNCHANGED <<clock, i, total, calls, before, lastOutcome, failedIn, delayedFor>>
  /\ UNCHANGED dbVars

\* What a test double of requests.get and time.sleep would record of the
\* iteration: the branch, the exception text, the sleep, and, when the
\* iteration got as far as reading it (line 102), the time series of the
\* response: whether the key was present, its entries, their number.
Observed(resp, a) ==
  [kind    |-> Classify(resp),
   text    |-> Raised(resp),
   sleep   |-> Waited(resp, a),
   present |-> Classify(resp) \in {"ok", "empty"} /\ resp.hasSeries,
   series  |-> IF Classify(resp) = "ok" THEN resp.series ELSE <<>>,
   n       |-> IF Classify(resp) = "ok" THEN Len(resp.series) ELSE 0]

\* The last row of rs for every key of rs: what a batch leaves behind.
LastOfBatch(rs) ==
  {rs[k] : k \in {j \in 1..Len(rs) :
                    \A m \in (j + 1)..Len(rs) : Key(rs[m]) # Key(rs[j])}}

\* lines 145-146: an empty result; "continue" skips the rest of the body.
NoData ==
  /\ pc = "returned"
  /\ UNCHANGED urlVars
  /\ ledger' = Append(ledger, [fetched |-> 0, wrote |-> FALSE])
  /\ UNCHANGED setup
  /\ rows = <<>>
  /\ lastOutcome' = "nodata"
  /\ pc' = "loop"
  /\ i' = i + 1
  /\ UNCHANGED <<clock, total, rows, err, attempt, trace, calls, before, failedIn, delayedFor>>
  /\ UNCHANGED dbVars

\* lines 147-151: the batch is written, counted, and the delay follows
\* unless this was the last symbol.
WriteRows ==
  /\ pc = "returned"
  /\ UNCHANGED urlVars
  /\ ledger' = Append(ledger, [fetched |-> Len(rows), wrote |-> TRUE])
  /\ UNCHANGED setup
  /\ rows # <<>>
  /\ store' = ExecuteBatch(store, rows, clock)
  /\ lastw' = {r \in lastw : \A k \in 1..Len(rows) : Key(rows[k]) # Key(r)}
              \cup LastOfBatch(rows)
  /\ total' = total + Len(rows)
  /\ lastOutcome' = "done"
  /\ delayedFor' = IF i < Len(SYMBOLS) THEN i ELSE delayedFor
  /\ pc' = "loop"
  /\ i' = i + 1
  /\ UNCHANGED <<clock, schema, registry, rows, err, attempt, trace, calls, before, failedIn>>

\* Faulty variant: the rows are counted before the write is attempted
WriteFailsCounted ==
  /\ pc = "returned"
  /\ UNCHANGED urlVars
  /\ ledger' = Append(ledger, [fetched |-> Len(rows), wrote |-> FALSE])
  /\ UNCHANGED setup
  /\ rows # <<>>
  /\ err' = "write failed"
  /\ total' = total + Len(rows)
  /\ lastOutcome' = "skip"
  /\ failedIn' = "write"
  /\ pc' = "loop"
  /\ i' = i + 1
  /\ UNCHANGED <<clock, rows, attempt, trace, calls, before, delayedFor>>
  /\ UNCHANGED dbVars

\* lines 147-148, 152-153: the write raises; nothing of the page is applied
\* (autocommit, one statement batch) and the symbol is skipped.
WriteFails ==
  /\ pc = "returned"
  /\ UNCHANGED urlVars
  /\ ledger' = Append(ledger, [fetched |-> Len(rows), wrote |-> FALSE])
  /\ UNCHANGED setup
  /\ rows # <<>>
  /\ err' = "write failed"
  /\ lastOutcome' = "skip"
  /\ failedIn' = "write"
  /\ pc' = "loop"
  /\ i' = i + 1
  /\ UNCHANGED <<clock, total, rows, attempt, trace, calls, before, delayedFor>>
  /\ UNCHANGED dbVars

\* Faulty variant: no try/except around the loop body: the exception leaves main
SkipSymbolAbort ==
  /\ pc = "raised"
  /\ UNCHANGED urlVars
  /\ ledger' = Append(ledger, [fetched |-> 0, wrote |-> FALSE])
  /\ UNCHANGED setup
  /\ lastOutcome' = "skip"
  /\ failedIn' = "fetch"
  /\ pc' = "aborted"
  /\ UNCHANGED <<clock, i, total, rows, err, attempt, trace, calls, before, delayedFor>>
  /\ UNCHANGED dbVars

\* Faulty variant: the driver retries the symbol it failed on
SkipSymbolRetry ==
  /\ pc = "raised"
  /\ UNCHANGED urlVars
  /\ ledger' = Append(ledger, [fetched |-> 0, wrote |-> FALSE])
  /\ UNCHANGED setup
  /\ lastOutcome' = "skip"
  /\ failedIn' = "fetch"
  /\ pc' = "loop"
  /\ UNCHANGED <<clock, i, total, rows, err, attempt, trace, calls, before, delayedFor>>
  /\ UNCHANGED dbVars

\* lines 152-153: the fetcher raised; the symbol is skipped.
SkipSymbol ==
  /\ pc = "raised"
  /\ UNCHANGED urlVars
  /\ ledger' = Append(ledger, [fetched |-> 0, wrote |-> FALSE])
  /\ UNCHANGED setup
  /\ lastOutcome' = "skip"
  /\ failedIn' = "fetch"
  /\ pc' = "loop"
  /\ i' = i + 1
  /\ UNCHANGED <<clock, total, rows, err, attempt, trace, calls, before, delayedFor>>
  /\ UNCHANGED dbVars

\* line 154: the loop is exhausted; the total is reported.
Report ==
  /\ pc = "loop"
  /\ UNCHANGED urlVars
  /\ UNCHANGED <<setup, ledger>>
  /\ i > Len(SYMBOLS)
  /\ pc' = "done"
  /\ UNCHANGED <<clock, i, total, rows, err, attempt>>
  /\ UNCHANGED dbVars
  /\ UNCHANGED obsVars

Next ==
  \/ Connect
  \/ RunDdl
  \/ EnsureSymbols
  \/ BeginSymbol
  \/ \E resp \in Responses : Attempt(resp) /\ UNCHANGED trace
  \/ NoData
  \/ WriteRows
  \/ WriteFails
  \/ SkipSymbol
  \/ Report

Spec == Init /\ [][Next]_vars

\* The program is sequential and every step returns (the request has a
\* timeout, the sleeps are finite), so a run that can step does step.
FairSpec == Spec /\ WF_vars(Next)

(* ------------- one symbol, with the fetcher observed ------------------- *)
\* The loop body for SYMBOLS[i] alone: one call of fetch_daily_adjusted
\* against an upstream that answers each request with any response, every
\* request and sleep recorded, followed by the driver's handling of the result.
FetchInit ==
  /\ clock = 1
  /\ schema = TRUE
  /\ registry = InsertSymbols(PreRegistry, SYMBOLS)
  /\ store = {}
  /\ lastw = {}
  /\ pc = "fetch"
  /\ i \in 1..Len(SYMBOLS)
  /\ total = 0
  /\ rows = <<>>
  /\ err = "none"
  /\ attempt = 0
  /\ trace = <<>>
  /\ calls = SubSeq(SYMBOLS, 1, i)
  /\ before = [store |-> {}, total |-> 0, taken |-> TRUE]
  /\ lastOutcome = "none"
  /\ failedIn = "none"
  /\ delayedFor = 0
  /\ setup = <<"ddl", "register">>
  /\ ledger = <<>>
  /\ envDsn = DeployedDsn
  /\ urllib = "drops-empty-authority"
  /\ outs = <<ensure_supabase_pooler_options(envDsn, urllib)>>

FetchStep ==
  \E resp \in Responses :
    /\ Attempt(resp)
    /\ trace' = Append(trace, Observed(resp, attempt))

FetchNext ==
  \/ FetchStep
  \/ NoData
  \/ WriteRows
  \/ WriteFails
  \/ SkipSymbol

FetchSpec == FetchInit /\ [][FetchNext]_vars

\* The request has a timeout and every sleep ends: the call keeps stepping.
FairFetchSpec == FetchSpec /\ WF_vars(FetchNext)

(* ------------- one symbol, ingested run after run ---------------------- *)
\* The database outlives a run.  A later run of the job (line 157) comes to
\* the same symbol again, at a later time, with the rows of the earlier
\* runs in the store.  Rows of different symbols never share a key, so the
\* history of one symbol's rows is the history of its own ingestions.
Rerun ==
  /\ pc = "loop"
  /\ UNCHANGED urlVars
  /\ ledger' = <<>>
  /\ UNCHANGED setup
  /\ clock < MaxRuns
  /\ clock' = clock + 1
  /\ pc' = "fetch"
  /\ i' = i - 1
  /\ total' = 0
  /\ attempt' = 0
  /\ rows' = <<>>
  /\ err' = "none"
  /\ before' = [store |-> store, total |-> 0, taken |-> TRUE]
  /\ lastOutcome' = "none"
  /\ failedIn' = "none"
  /\ delayedFor' = 0
  /\ UNCHANGED <<trace, calls>>
  /\ UNCHANGED dbVars

StoreNext ==
  \/ \E resp \in Responses : Attempt(resp) /\ UNCHANGED trace
  \/ NoData
  \/ WriteRows
  \/ WriteFails
  \/ SkipSymbol
  \/ Rerun

StoreSpec == FetchInit /\ [][StoreNext]_vars

(* ------------------- the connection string, normalized ----------------- *)
\* The module reads DATABASE_URL and normalizes it before main runs; the
\* normalizer is then applied to its own output.
NormInit ==
  /\ clock = 1
  /\ schema = TRUE
  /\ registry = PreRegistry
  /\ store = {}
  /\ lastw = {}
  /\ pc = "connect"
  /\ i = 0
  /\ total = 0
  /\ rows = <<>>
  /\ err = "none"
  /\ attempt = 0
  /\ trace = <<>>
  /\ calls = <<>>
  /\ before = NoSnap
  /\ lastOutcome = "none"
  /\ failedIn = "none"
  /\ delayedFor = 0
  /\ setup = <<>>
  /\ ledger = <<>>
  /\ envDsn \in Urls
  /\ urllib \in UrllibBuilds
  /\ outs = <<>>

\* DB_URL = ensure_supabase_pooler_options(DB_URL)
NormalizeDbUrl ==
  /\ outs = <<>>
  /\ outs' = <<ensure_supabase_pooler_options(envDsn, urllib)>>
  /\ UNCHANGED <<envDsn, urllib>>
  /\ UNCHANGED <<clock, pc, i, total, rows, err, attempt, setup, ledger>>
  /\ UNCHANGED dbVars
  /\ UNCHANGED obsVars

\* ensure_supabase_pooler_options(DB_URL) on the normalized DB_URL
NormalizeAgain ==
  /\ Len(outs) = 1
  /\ outs' = Append(outs, ensure_supabase_pooler_options(outs[1], urllib))
  /\ UNCHANGED <<envDsn, urllib>>
  /\ UNCHANGED <<clock, pc, i, total, rows, err, attempt, setup, ledger>>
  /\ UNCHANGED dbVars
  /\ UNCHANGED obsVars

NormNext ==
  \/ NormalizeDbUrl
  \/ NormalizeAgain

NormSpec == NormInit /\ [][NormNext]_vars

TypeOK ==
  /\ clock \in 1..MaxRuns
  /\ pc \in {"connect", "ddl", "register", "loop", "fetch", "returned",
             "raised", "done", "aborted"}
  /\ attempt \in 0..(MaxAttempts - 1)
  /\ Len(trace) <= MaxAttempts

(* ---------------------- observations on a trace ------------------------ *)
RECURSIVE SleptUpTo(_)
SleptUpTo(k) == IF k = 0 THEN 0 ELSE SleptUpTo(k - 1) + trace[k].sleep

Slept == SleptUpTo(Len(trace))

AllOfKind(k, kind) == \A j \in 1..k : trace[j].kind = kind

FetchOver == pc \in {"returned", "raised", "loop"}

(* ------------------------------ C1 -------------------------------------- *)
\* C1 (as claimed): a response carrying "Error Message" ends the call at once:
\* it is the last request of the call, nothing is slept after it, and the
\* call raises with the error text.
C1_HardErrorFailsImmediately ==
  \A k \in 1..Len(trace) :
    trace[k].kind = "hard" =>
      /\ k = Len(trace)
      /\ trace[k].sleep = 0
      /\ FetchOver
      /\ err = trace[k].text

(* ------------------------------ C4 -------------------------------------- *)
\* sum of (15 + 10*a) over a = 0..k-1
RECURSIVE ScheduleSum(_)
ScheduleSum(k) == IF k = 0 THEN 0 ELSE ScheduleSum(k - 1) + (15 + 10 * (k - 1))

NotesThenSuccess(k) ==
  /\ Len(trace) = k + 1
  /\ AllOfKind(k, "note")
  /\ trace[k + 1].kind = "ok"

\* C4: k rate-limit notices (k < 3) followed by a success payload: the call
\* returns one parsed row per date key without raising, and it has slept
\* exactly the schedule 15, 15+25.
C4_RateLimitThenSuccess ==
  \A k \in 0..(MaxAttempts - 1) :
    NotesThenSuccess(k) =>
      /\ pc \in {"returned", "loop"}
      /\ err \in {"none", "write failed"}
      /\ failedIn # "fetch"
      /\ Len(rows) = trace[k + 1].n
      /\ rows # <<>>
      /\ Slept = ScheduleSum(k)
      /\ (k = 1 => Slept = 15)
      /\ (k = 2 => Slept = 15 + 25)

C4_Witness ==
  /\ NotesThenSuccess(2)
  /\ pc = "returned"
  /\ Len(rows) = 2

(* ------------------------------ C5 -------------------------------------- *)
\* C5 (as claimed): three rate-limit notices make the call raise and the
\* driver report the symbol as skipped; with fewer notices an error is never
\* the product of a notice.
C5_ExhaustedRateLimitRaises ==
  /\ (Len(trace) = MaxAttempts /\ AllOfKind(MaxAttempts, "note")) =>
       /\ pc \in {"raised", "loop"}
       /\ pc = "loop" => lastOutcome = "skip"
  /\ (pc = "raised" => trace[Len(trace)].kind # "note")

(* ------------------------------ C9 -------------------------------------- *)
\* C9: when every attempt so far failed transiently, the call slept 5 s after
\* the first and 10 s after the second, retried until the third, and after
\* the third raised that attempt's error without sleeping.
C9_TransientBackoff ==
  AllOfKind(Len(trace), "transient") =>
    /\ (Len(trace) >= 1 => trace[1].sleep = 5)
    /\ (Len(trace) >= 2 => trace[2].sleep = 10)
    /\ (Len(trace) < MaxAttempts => pc = "fetch")
    /\ (Len(trace) = MaxAttempts =>
          /\ pc \in {"raised", "loop"}
          /\ err = trace[MaxAttempts].text
          /\ trace[MaxAttempts].sleep = 0
          /\ Slept = 5 + 10
          /\ (pc = "loop" => lastOutcome = "skip" /\ failedIn = "fetch"))

C9_Witness ==
  /\ Len(trace) = MaxAttempts
  /\ AllOfKind(MaxAttempts, "transient")
  /\ pc = "raised"
  /\ trace[1].text # trace[MaxAttempts].text
  /\ err = trace[MaxAttempts].text

(* ---------------------- observations on the store ---------------------- *)
Keys(st) == {Key(r) : r \in st}

DataOf(st) == {Data(r) : r \in st}

RowsOfSymbol(st, sym) == {r \in st : r.symbol = sym}

\* The symbol the driver has just finished with.
Finished == SYMBOLS[i - 1]

JustWritten == pc = "loop" /\ lastOutcome = "done" /\ before.taken

\* The store already holds, for every key of the batch, the values the
\* batch carries for it.
AlreadyIngested(rs, st) == LastOfBatch(rs) \subseteq DataOf(st)

(* ------------------------------ C2 -------------------------------------- *)
\* C2: once setup has succeeded, whatever fails per symbol, the fetcher is
\* invoked for the configured symbols in order, once each, the run is never
\* aborted from inside the loop, and the run reaches the final report having
\* invoked the fetcher for every symbol.
C2_EverySymbolOnceThenReport ==
  /\ [](calls = SubSeq(SYMBOLS, 1, Len(calls)))
  /\ [](pc = "aborted" => calls = <<>>)
  /\ [](pc = "done" => calls = SYMBOLS)
  /\ [](pc \in {"fetch", "returned", "raised"} => Len(calls) = i)
  /\ ((pc = "loop") ~> (pc = "done"))

C2_Witness ==
  /\ pc = "done"
  /\ calls = SYMBOLS
  /\ lastOutcome = "skip"
  /\ total > 0

(* ------------------------------ C3 -------------------------------------- *)
\* C3 (as claimed): writing a batch the store already holds leaves the store
\* exactly as it was, every column of every row included.
C3_ReingestLeavesStoreIdentical ==
  (JustWritten /\ AlreadyIngested(rows, before.store)) => store = before.store

\* C3 (amended): writing a batch the store already holds leaves the same keys,
\* the same number of rows and the same value columns; ingested_at is the one
\* column that may differ.
C3_ReingestKeepsKeysAndValues ==
  (JustWritten /\ AlreadyIngested(rows, before.store)) =>
    /\ Keys(store) = Keys(before.store)
    /\ Cardinality(store) = Cardinality(before.store)
    /\ DataOf(store) = DataOf(before.store)
    /\ \A r \in store : \A q \in store : Key(r) = Key(q) => r = q

C3_Witness ==
  /\ JustWritten
  /\ AlreadyIngested(rows, before.store)
  /\ Len(rows) = 2
  /\ store # before.store

(* ------------------------------ C6 -------------------------------------- *)
\* C6 (as claimed): the first request for every symbol but the first comes
\* after a 13 s delay that followed the previous symbol, and no delay follows
\* the last symbol.
C6_DelayBetweenSymbols ==
  /\ (pc = "fetch" /\ i > 1) => delayedFor = i - 1
  /\ delayedFor # Len(SYMBOLS)

(* ------------------------------ C7 -------------------------------------- *)
\* C7: the store never holds two rows with one (symbol, ts); the value columns
\* of every key are those of the latest successful write that contained the
\* key; a key once stored is never removed.
C7_UniqueKeysLastWriteWins ==
  /\ \A r \in store : \A q \in store : Key(r) = Key(q) => r = q
  /\ DataOf(store) = lastw
  /\ (before.taken => Keys(before.store) \subseteq Keys(store))

C7_Witness ==
  /\ JustWritten
  /\ \E r \in before.store : \E q \in store :
       Key(r) = Key(q) /\ Data(r) # Data(q) /\ Data(q) \in lastw

(* ------------------------------ C8 -------------------------------------- *)
NoPriorBars == RowsOfSymbol(before.store, Finished) = {}

\* C8 (as claimed): with no prior bars for S, a successful ingestion of a
\* payload with N date keys leaves exactly N rows for S.
C8_RowPerDateKey ==
  (JustWritten /\ NoPriorBars) =>
    Cardinality(RowsOfSymbol(store, Finished)) = Len(rows)

\* C8 (amended): with no prior bars for S, a successful ingestion leaves
\* exactly one row for S per distinct day the payload's date keys name; that
\* is N rows when the N date keys name N different days.
C8_RowPerDistinctDay ==
  (JustWritten /\ NoPriorBars) =>
    LET days == {rows[k].ts : k \in 1..Len(rows)} IN
    /\ Keys(RowsOfSymbol(store, Finished)) = {<<Finished, d>> : d \in days}
    /\ Cardinality(RowsOfSymbol(store, Finished)) = Cardinality(days)
    /\ (Cardinality(days) = Len(rows) =>
          Cardinality(RowsOfSymbol(store, Finished)) = Len(rows))

C8_Witness ==
  /\ JustWritten
  /\ NoPriorBars
  /\ Len(rows) = 2
  /\ Cardinality(RowsOfSymbol(store, Finished)) = 2

(* ------------------------------ C10 ------------------------------------- *)
\* C10: when the fetcher raised for a symbol, the store and the running total
\* are what they were when the symbol began, and the driver stands at the
\* next symbol (or at the report) with the run still alive.
C10_FetchFailureWritesNothing ==
  (lastOutcome = "skip" /\ failedIn = "fetch") =>
    /\ store = before.store
    /\ total = before.total
    /\ pc \in {"loop", "done"}
    /\ i = Len(calls) + 1

C10_Witness ==
  /\ lastOutcome = "skip"
  /\ failedIn = "fetch"
  /\ pc = "loop"
  /\ i = 3
  /\ store # {}
  /\ total > 0

(* ------------------------------ C11 ------------------------------------- *)
\* The last recorded attempt of the call.
LastAttempt == trace[Len(trace)]

ReturnedRows == Len(trace) > 0 /\ LastAttempt.kind = "ok"

\* C11: whatever the order of the date keys in the payload, the returned rows
\* are in ascending order of ts, and they are the payload's days, each as
\* often as the payload names it.
C11_ReturnedRowsSorted ==
  ReturnedRows =>
    /\ \A j \in 1..Len(rows) : \A k \in 1..Len(rows) :
         j < k => rows[j].ts <= rows[k].ts
    /\ Len(rows) = Len(LastAttempt.series)
    /\ \A d \in {IsoParse(k) : k \in DateKeys} :
         Cardinality({j \in 1..Len(rows) : rows[j].ts = d}) =
         Cardinality({j \in 1..Len(LastAttempt.series) :
                        IsoParse(LastAttempt.series[j][1]) = d})

C11_Witness ==
  /\ ReturnedRows
  /\ pc = "returned"
  /\ Len(LastAttempt.series) = 2
  /\ LastAttempt.series[1][1] = "2024-01-03"
  /\ LastAttempt.series[2][1] = "2024-01-02"
  /\ rows[1].ts = 20240102
  /\ rows[2].ts = 20240103

(* ------------------------------ C15 ------------------------------------- *)
\* C15 (as claimed): a response that is neither an error nor a notice and
\* whose time series is present but empty ends the call with an empty result,
\* nothing raised, and the driver reports "no data".
C15_EmptySeriesReturnsEmpty ==
  \A k \in 1..Len(trace) :
    (trace[k].kind = "empty" /\ trace[k].present) =>
      /\ k = Len(trace)
      /\ pc \in {"returned", "loop"}
      /\ rows = <<>>
      /\ err = "none"
      /\ (pc = "loop" => lastOutcome = "nodata")

(* ------------------------------ C18 ------------------------------------- *)
HasAdjusted(v) == "5. adjusted close" \in DOMAIN v

\* The row of the result that came from one entry of the payload.
RowFrom(d, v, r) ==
  /\ r.ts = IsoParse(d)
  /\ r.open = Float(v["1. open"])
  /\ r.close = Float(v["4. close"])
  /\ r.volume = Int10(v["6. volume"])

\* C18: every entry of a success payload yields a row whose adj_close is the
\* entry's own adjusted close when it has one and the row's close when it has
\* none; and every returned row is such a row.
C18_AdjustedCloseFallback ==
  ReturnedRows =>
    /\ \A k \in 1..Len(LastAttempt.series) :
         LET d == LastAttempt.series[k][1]
             v == LastAttempt.series[k][2]
         IN \E j \in 1..Len(rows) :
              /\ RowFrom(d, v, rows[j])
              /\ (~HasAdjusted(v) => rows[j].adj_close = rows[j].close)
              /\ (HasAdjusted(v) =>
                    rows[j].adj_close = Float(v["5. adjusted close"]))
    /\ \A j \in 1..Len(rows) :
         \E k \in 1..Len(LastAttempt.series) :
           LET v == LastAttempt.series[k][2] IN
           /\ RowFrom(LastAttempt.series[k][1], v, rows[j])
           /\ rows[j].adj_close =
                IF HasAdjusted(v) THEN Float(v["5. adjusted close"])
                ELSE rows[j].close

C18_Witness ==
  /\ ReturnedRows
  /\ pc = "returned"
  /\ \E k \in 1..Len(LastAttempt.series) : ~HasAdjusted(LastAttempt.series[k][2])
  /\ \E k \in 1..Len(LastAttempt.series) : HasAdjusted(LastAttempt.series[k][2])
  /\ \E j \in 1..Len(rows) : rows[j].adj_close = rows[j].close
  /\ \E j \in 1..Len(rows) : rows[j].adj_close # rows[j].close

(* ------------------------------ C19 ------------------------------------- *)
\* C19: whatever the responses, one call issues at most 3 requests, the loop
\* variable counts every request whatever its outcome (notices and failures
\* draw on the same 3 attempts), and the call ends, returning or raising.
C19_AtMostThreeRequestsAndEnds ==
  /\ [](Len(trace) <= 3)
  /\ [](pc = "fetch" => attempt = Len(trace))
  /\ [](FetchOver => Len(trace) \in 1..3)
  /\ <>(pc \in {"returned", "raised"})

C19_Witness ==
  /\ Len(trace) = 3
  /\ trace[1].kind = "note"
  /\ trace[2].kind = "transient"
  /\ trace[3].kind = "hard"
  /\ pc = "raised"

(* ------------------------------ C20 ------------------------------------- *)
\* C20 (as claimed): a sleep inside the call is always followed by another
\* request of the same call; the last attempt of a call never sleeps.
C20_NoSleepAfterFinalAttempt ==
  \A k \in 1..Len(trace) :
    trace[k].sleep > 0 => (k < Len(trace) \/ pc = "fetch")

(* ------------------------------ C14 ------------------------------------- *)
SetupDone == setup = <<"ddl", "register">>

\* C14: the bootstrap completes once, then the registration once, and only
\* then is the fetcher called; when either fails the run is over with no
\* request made and no bar written; a failed write of one symbol leaves the
\* run going.
C14_SetupFirstAndFatal ==
  /\ setup \in {<<>>, <<"ddl">>, <<"ddl", "register">>}
  /\ (pc \in {"connect", "ddl"} => setup = <<>>)
  /\ (pc = "register" => setup = <<"ddl">>)
  /\ (pc \in {"loop", "fetch", "returned", "raised", "done"} => SetupDone)
  /\ (calls # <<>> => SetupDone)
  /\ (pc = "aborted" =>
        /\ ~SetupDone
        /\ calls = <<>>
        /\ ledger = <<>>
        /\ store = {}
        /\ total = 0)
  /\ ((lastOutcome = "skip" /\ failedIn = "write") =>
        /\ pc \in {"loop", "done"}
        /\ i = Len(calls) + 1)

C14_Witness ==
  /\ pc = "aborted"
  /\ setup = <<"ddl">>
  /\ err = "registration failed"

(* ------------------------------ C16 ------------------------------------- *)
Registered == Len(setup) = 2

\* C16: once ensure_symbols has succeeded every configured symbol has exactly
\* one registry row, the rows that were there before are there unchanged,
\* and applying ensure_symbols again would leave the registry as it is.
C16_RegistrationInsertIfAbsent ==
  /\ (~Registered => registry = PreRegistry)
  /\ (Registered =>
        /\ \A k \in 1..Len(SYMBOLS) :
             Cardinality({r \in registry : r.symbol = SYMBOLS[k]}) = 1
        /\ PreRegistry \subseteq registry
        /\ {r.symbol : r \in registry} =
             {r.symbol : r \in PreRegistry} \cup {SYMBOLS[k] : k \in 1..Len(SYMBOLS)}
        /\ InsertSymbols(registry, SYMBOLS) = registry)

C16_Witness ==
  /\ Registered
  /\ pc = "loop"
  /\ [symbol |-> "AAPL", name |-> "Apple Inc.", is_active |-> FALSE] \in registry
  /\ NewSymbolRow("MSFT") \in registry

(* ------------------------------ C17 ------------------------------------- *)
RECURSIVE LedgerSum(_)
LedgerSum(k) ==
  IF k = 0 THEN 0
  ELSE LedgerSum(k - 1) +
       (IF ledger[k].wrote /\ ledger[k].fetched > 0 THEN ledger[k].fetched ELSE 0)

\* C17: the reported total is the number of rows fetched, summed over the
\* symbols whose fetch returned rows and whose write succeeded; every other
\* symbol adds nothing.
C17_TotalIsRowsWritten ==
  /\ (pc \in {"loop", "done"} =>
        /\ total = LedgerSum(Len(ledger))
        /\ Len(ledger) = i - 1)
  /\ (pc = "done" => Len(ledger) = Len(SYMBOLS))

C17_Witness ==
  /\ pc = "done"
  /\ ledger[1].wrote /\ ledger[1].fetched = 2
  /\ ~ledger[2].wrote /\ ledger[2].fetched = 1
  /\ total = 2

(* ------------------------------ C12 ------------------------------------- *)
\* C12: ensure_supabase_pooler_options is idempotent: for every connection
\* URL, whatever its host, its sslmode and its options value, applying the
\* normalizer to its own output gives that output again.
C12_NormalizerIdempotent ==
  Len(outs) = 2 => outs[2] = outs[1]

\* The same, for the connection URLs that urlunsplit writes back as they
\* were split: a host is given, or the interpreter keeps an empty authority.
WrittenAsSplit ==
  \/ Urlsplit(envDsn).netloc # <<>>
  \/ ~StartsWithSlashes(Urlsplit(envDsn).path)
  \/ urllib = "keeps-empty-authority"

IdempotentWhenWrittenAsSplit ==
  (Len(outs) = 2 /\ WrittenAsSplit) => outs[2] = outs[1]

(* ------------------------------ C13 ------------------------------------- *)
\* The query of a connection URL as a reader of the URL decodes it.
QueryOf(u) == Dict(ParseQsl(u.query))

DeclaresSslRequire(u) ==
  /\ DictHas(QueryOf(u), "sslmode")
  /\ DictVal(QueryOf(u), "sslmode") = <<"require">>

\* An entry project=<tenant> of an options value: a word of its own.
RoutingEntryIn(opts) ==
  \E k \in 1..(Len(opts) - 2) :
    /\ SubSeq(opts, k, k + 1) = ProjectEq
    /\ opts[k + 2] # " "
    /\ k = 1 \/ opts[k - 1] = " "

PoolerHost(u) == Contains(Urlsplit(u).netloc, PoolerDomain)

\* The options text of the input, surrounding blanks aside, is part of the
\* options value of the output.
KeepsOptionsText(in, out) ==
  DictHas(QueryOf(in), "options") =>
    /\ DictHas(QueryOf(out), "options")
    /\ Contains(DictVal(QueryOf(out), "options"),
                Strip(DictVal(QueryOf(in), "options")))

SslAlwaysRequired ==
  Len(outs) >= 1 => DeclaresSslRequire(outs[1])

OptionsTextKept ==
  Len(outs) >= 1 => KeepsOptionsText(envDsn, outs[1])

PoolerAlwaysRouted ==
  (Len(outs) >= 1 /\ PoolerHost(envDsn)) =>
    RoutingEntryIn(OptionsOrEmpty(QueryOf(outs[1])))

\* C13: the output of ensure_supabase_pooler_options declares
\* sslmode=require; when the host is a pooler host its options value holds a
\* routing entry project=<tenant>; and options text that was there before is
\* still in the output's options value.
C13_SslRoutingAndOptionsKept ==
  /\ SslAlwaysRequired
  /\ PoolerAlwaysRouted
  /\ OptionsTextKept

====
